---- MODULE Spec2Model ----
(***************************************************************************)
(* Model of app.py: a Streamlit script that loads two GeoJSON files        *)
(* through a TTL cache, counts the points of one inside the polygons of    *)
(* the other, styles a choropleth and exports a CSV.                       *)
(*                                                                         *)
(* Four specifications share the operators below:                         *)
(*   SpecAgg   - lines 50-58 applied to arbitrary loaded collections       *)
(*   SpecStyle - lines 74-92 applied to arbitrary count columns            *)
(*   SpecCsv   - lines 149-153 applied to arbitrary NOME/count frames      *)
(*   Spec      - the script's render cycles over the shared loader cache   *)
(***************************************************************************)
EXTENDS Integers, Sequences, FiniteSets, TLC

VARIABLES
    \* ---- render cycles (Spec) ----
    clock,          \* wall-clock time in seconds
    remote,         \* what each URL currently serves
    cache,          \* st.cache_data store of load_geojson_from_github
    lastLoad,       \* per URL: the latest call of the loader and the latest
                    \* call that went to the network (time and result)
    lastCall,       \* observation of the call of the loader made by the
                    \* step just taken (empty after any other step)
    pc,             \* per session: position of the script run
    bairros_data,   \* per session: module-level variable of the script
    df_sb,          \* per session: module-level variable of the script
    out,            \* per session: what the run has produced so far
    \* ---- processing block on its own (SpecAgg / SpecStyle / SpecCsv) ----
    stage,          \* position inside the block
    gdf_bairros,    \* polygon GeoDataFrame
    gdf_sb,         \* point GeoDataFrame
    join,           \* result of gpd.sjoin
    colormap,       \* the LinearColormap of line 77
    styles,         \* style_function result per polygon
    csv             \* bytes returned by convert_df

cycleVars == <<clock, remote, cache, lastLoad, lastCall, pc, bairros_data, df_sb, out>>
pureVars  == <<stage, gdf_bairros, gdf_sb, join, colormap, styles, csv>>
vars      == <<clock, remote, cache, lastLoad, lastCall, pc, bairros_data, df_sb, out,
               stage, gdf_bairros, gdf_sb, join, colormap, styles, csv>>

----------------------------------------------------------------------------
(* Bounds *)
MaxPolys == 2
MaxPoints == 2
MaxRows == 3
MaxCount == 4
MaxCsvRows == 2
MaxNameLen == 2
MaxClock == 5400

\* A missing geometry (GeoJSON "geometry": null).
NoGeom == [type |-> "None", pts |-> {}]
\* A missing right index in a join row; a present one is <<j>>.
NaN == <<>>

SeqsUpTo(S, n) == UNION {[1..k -> S] : k \in 0..n}
NonEmptySeqsUpTo(S, n) == UNION {[1..k -> S] : k \in 1..n}

RECURSIVE SumSeq(_)
SumSeq(s) == IF s = <<>> THEN 0 ELSE Head(s) + SumSeq(Tail(s))

----------------------------------------------------------------------------
(* Geometry.  The plane is a finite set of cells.  A polygon is its        *)
(* interior cells and its boundary cells; a point geometry is the set of   *)
(* cells it occupies (empty for an empty geometry).                        *)
Loc == {"x1", "x2", "x3"}

EPSG4326 == "EPSG:4326"
EPSG31982 == "EPSG:31982"
CRSs == {EPSG4326, EPSG31982}

\* Coordinates of the same place differ between the two reference systems.
Proj == [l \in Loc |-> CASE l = "x1" -> "x2" [] l = "x2" -> "x3" [] l = "x3" -> "x1"]

PolyShapes ==
    {[type |-> "Polygon", int |-> I, bnd |-> B] :
        <<I, B>> \in {ib \in (SUBSET Loc) \X (SUBSET Loc) :
                        /\ ib[1] # {}
                        /\ ib[1] \cap ib[2] = {}
                        /\ Cardinality(ib[1] \cup ib[2]) <= 2}}

PointGeoms ==
    {[type |-> "Point", pts |-> {l}] : l \in Loc}
        \cup {[type |-> "Point", pts |-> {}]}
        \cup {[type |-> "MultiPoint", pts |-> S] : S \in {T \in SUBSET Loc : Cardinality(T) = 2}}
        \cup {NoGeom}

Reproject(g) ==
    IF g.type = "None" THEN g
    ELSE IF g.type = "Polygon"
         THEN [g EXCEPT !.int = {Proj[l] : l \in g.int}, !.bnd = {Proj[l] : l \in g.bnd}]
         ELSE [g EXCEPT !.pts = {Proj[l] : l \in g.pts}]

\* GeoDataFrame.to_crs(epsg=4326)
to_crs(gdf) ==
    IF gdf.crs = EPSG4326 THEN gdf
    ELSE [crs |-> EPSG4326,
          rows |-> [i \in DOMAIN gdf.rows |->
                      [gdf.rows[i] EXCEPT !.geometry = Reproject(gdf.rows[i].geometry)]]]

\* predicate="contains": no cell of b outside a, and b's interior meets a's
\* interior.  The spatial index skips missing and empty geometries.
Contains(a, b) ==
    /\ b.type # "None"
    /\ b.pts # {}
    /\ b.pts \subseteq (a.int \cup a.bnd)
    /\ b.pts \cap a.int # {}

\* gpd.sjoin(left, right, how="left", predicate="contains"): one row per
\* matching pair, and one row with a missing right index for every left row
\* that matched nothing.
sjoin(left, right) ==
    LET matched == {[index |-> i, index_right |-> <<j>>] :
                      <<i, j>> \in {ij \in (DOMAIN left.rows) \X (DOMAIN right.rows) :
                          Contains(left.rows[ij[1]].geometry, right.rows[ij[2]].geometry)}}
        unmatched == {[index |-> i, index_right |-> NaN] :
                      i \in {k \in DOMAIN left.rows : \A r \in matched : r.index # k}}
    IN matched \cup unmatched

\* join.groupby(join.index).size()
groupby_size(j) ==
    [i \in {r.index : r \in j} |-> Cardinality({r \in j : r.index = i})]

\* counts.reindex(index, fill_value=0)
reindex(counts, index, fill_value) ==
    [i \in index |-> IF i \in DOMAIN counts THEN counts[i] ELSE fill_value]

\* bairros_data["sistemas_bancarios"] = column
assign_counts(gdf, column) ==
    [gdf EXCEPT !.rows = [i \in DOMAIN gdf.rows |->
        [NOME |-> gdf.rows[i].NOME,
         geometry |-> gdf.rows[i].geometry,
         sistemas_bancarios |-> column[i]]]]

\* lines 52-58 as a whole
aggregate(b, s) ==
    LET b1 == to_crs(b)
        s1 == to_crs(s)
        j == sjoin(b1, s1)
        counts == groupby_size(j)
    IN [bairros |-> assign_counts(b1, reindex(counts, DOMAIN b1.rows, 0)),
        sb |-> s1,
        join |-> j]

\* lines 116-120: which features become marker / heat-map locations
is_location(geom) ==
    /\ geom.type # "None"
    /\ geom.type = "Point"
    /\ geom.pts # {}

----------------------------------------------------------------------------
(* Choropleth colour scale, lines 74-92 *)

Min(S) == CHOOSE x \in S : \A y \in S : x <= y
Max(S) == CHOOSE x \in S : \A y \in S : x >= y

\* colors=['#fef9ef', '#f3d9b1', '#d8b07a'] as RGB bytes
Colors == << <<254, 249, 239>>, <<243, 217, 177>>, <<216, 176, 122>> >>

ZeroDivisionError == <<"ZeroDivisionError">>
IndexError == <<"IndexError">>

\* cm.LinearColormap(colors, vmin, vmax): the index is n evenly spaced values
\* vmin + (vmax - vmin) * i / (n - 1); with n = 3 it is kept doubled here so
\* that the midpoint stays an integer.
LinearColormap(vmin, vmax) ==
    [vmin |-> vmin, vmax |-> vmax,
     index2 |-> <<2 * vmin, vmin + vmax, 2 * vmax>>]

\* int(u * 255.9999) for u = ((den - num) * c1 + num * c2) / (255 * den),
\* i.e. floor(v + v * 9999 / 2550000) for v = numer / den <= 255, computed
\* from the quotient and the remainder of numer / den.
Byte(c1, c2, num, den) ==
    LET numer == (den - num) * c1 + num * c2
        q == numer \div den
        r == numer % den
    IN IF r * 2550000 + numer * 9999 >= den * 2550000 THEN q + 1 ELSE q

\* '#%02x%02x%02x%02x' of the interpolated colour, kept as its four bytes
Hex(c1, c2, num, den) ==
    <<Byte(c1[1], c2[1], num, den), Byte(c1[2], c2[2], num, den),
      Byte(c1[3], c2[3], num, den), Byte(255, 255, num, den)>>

\* colormap(value) without the two clamping branches
colormap_call_unclamped(cmap, value) ==
    LET x2 == 2 * value
        i == Cardinality({k \in 1..3 : cmap.index2[k] < x2})
        lo == IF i = 0 THEN 3 ELSE i
    IN IF i = 3 THEN IndexError
       ELSE IF cmap.index2[i + 1] - cmap.index2[lo] = 0 THEN ZeroDivisionError
       ELSE Hex(Colors[lo], Colors[i + 1],
                x2 - cmap.index2[lo], cmap.index2[i + 1] - cmap.index2[lo])

\* colormap(value): clamp below index[0] and above index[-1], otherwise
\* interpolate linearly between the two neighbouring colours
colormap_call(cmap, value) ==
    LET x2 == 2 * value
        i == Cardinality({k \in 1..3 : cmap.index2[k] < x2})
    IN IF x2 <= cmap.index2[1] THEN Hex(Colors[1], Colors[1], 0, 1)
       ELSE IF x2 >= cmap.index2[3] THEN Hex(Colors[3], Colors[3], 0, 1)
       ELSE IF cmap.index2[i + 1] - cmap.index2[i] = 0 THEN ZeroDivisionError
       ELSE Hex(Colors[i], Colors[i + 1],
                x2 - cmap.index2[i], cmap.index2[i + 1] - cmap.index2[i])

\* style_function(feature)
style_function(cmap, row) ==
    LET value == IF "sistemas_bancarios" \in DOMAIN row THEN row.sistemas_bancarios ELSE 0
    IN [fillColor |-> colormap_call(cmap, value),
        color |-> "black",
        weight |-> "1.5",
        fillOpacity |-> "0.7"]

\* lines 75-82
make_colormap(gdf) ==
    LET column == {gdf.rows[i].sistemas_bancarios : i \in DOMAIN gdf.rows}
    IN LinearColormap(Min(column), Max(column))

----------------------------------------------------------------------------
(* CSV export, lines 148-153.  Text is a sequence of one-character strings;  *)
(* "a_tilde" stands for the one non-ASCII character of the alphabet.         *)

Digits == <<"0", "1", "2", "3", "4", "5", "6", "7", "8", "9">>

\* str(n) for n >= 0
RECURSIVE Decimal(_)
Decimal(n) == IF n < 10 THEN <<Digits[n + 1]>> ELSE Decimal(n \div 10) \o <<Digits[(n % 10) + 1]>>

RECURSIVE Flatten(_)
Flatten(ss) == IF ss = <<>> THEN <<>> ELSE Head(ss) \o Flatten(Tail(ss))

\* csv.QUOTE_MINIMAL: a field is quoted when it holds the delimiter, the
\* quote character or a line break; embedded quotes are doubled.
NeedsQuoting(f) == \E i \in DOMAIN f : f[i] \in {",", "\"", "\n", "\r"}

RECURSIVE DoubleQuotes(_)
DoubleQuotes(f) ==
    IF f = <<>> THEN <<>>
    ELSE (IF Head(f) = "\"" THEN <<"\"", "\"">> ELSE <<Head(f)>>) \o DoubleQuotes(Tail(f))

write_field(f) ==
    IF NeedsQuoting(f) THEN <<"\"">> \o DoubleQuotes(f) \o <<"\"">> ELSE f

RECURSIVE JoinFields(_)
JoinFields(fs) ==
    IF fs = <<>> THEN <<>>
    ELSE IF Len(fs) = 1 THEN write_field(fs[1])
    ELSE write_field(fs[1]) \o <<",">> \o JoinFields(Tail(fs))

write_row(fs) == JoinFields(fs) \o <<"\n">>

NOME_label == <<"N", "O", "M", "E">>
SB_label == <<"s", "i", "s", "t", "e", "m", "a", "s", "_",
              "b", "a", "n", "c", "a", "r", "i", "o", "s">>

\* df.to_csv() with the default index=True: a leading index column
to_csv_with_index(df) ==
    write_row(<<<<>>, NOME_label, SB_label>>)
        \o Flatten([i \in DOMAIN df |->
              write_row(<<Decimal(i - 1), df[i].NOME, Decimal(df[i].sistemas_bancarios)>>)])

\* df.to_csv(index=False): the header, then one line per row in frame order
to_csv(df) ==
    write_row(<<NOME_label, SB_label>>)
        \o Flatten([i \in DOMAIN df |->
              write_row(<<df[i].NOME, Decimal(df[i].sistemas_bancarios)>>)])

\* str.encode('utf-8'): ASCII characters are one byte, a_tilde is two
utf8(c) == IF c = "a_tilde" THEN <<"0xC3", "0xA3">> ELSE <<c>>
encode(text) == Flatten([i \in DOMAIN text |-> utf8(text[i])])

\* convert_df(df)
convert_df(df) == encode(to_csv(df))

\* bairros_data[['NOME', 'sistemas_bancarios']]
select_columns(gdf) ==
    [i \in DOMAIN gdf.rows |->
        [NOME |-> gdf.rows[i].NOME, sistemas_bancarios |-> gdf.rows[i].sistemas_bancarios]]

----------------------------------------------------------------------------
NameOf == [i \in 1..(MaxPolys + MaxRows + 1) |-> <<"C">>]

PolyFrames ==
    {[crs |-> c, rows |-> [i \in DOMAIN gs |-> [NOME |-> NameOf[i], geometry |-> gs[i]]]] :
        <<c, gs>> \in CRSs \X NonEmptySeqsUpTo(PolyShapes, MaxPolys)}

PointFrames ==
    {[crs |-> c, rows |-> [i \in DOMAIN gs |-> [geometry |-> gs[i]]]] :
        <<c, gs>> \in CRSs \X SeqsUpTo(PointGeoms, MaxPoints)}

\* The pure specifications leave the render-cycle state at rest.
CycleIdle ==
    /\ clock = 0 /\ remote = <<>> /\ cache = <<>> /\ lastLoad = <<>> /\ lastCall = <<>>
    /\ pc = <<>> /\ bairros_data = <<>> /\ df_sb = <<>> /\ out = <<>>

InitAgg ==
    /\ CycleIdle
    /\ stage = "loaded"
    /\ gdf_bairros \in PolyFrames
    /\ gdf_sb \in PointFrames
    /\ join = {} /\ colormap = <<>> /\ styles = <<>> /\ csv = <<>>

\* lines 51-58
Process ==
    /\ stage = "loaded"
    /\ LET a == aggregate(gdf_bairros, gdf_sb)
       IN /\ gdf_bairros' = a.bairros
          /\ gdf_sb' = a.sb
          /\ join' = a.join
    /\ stage' = "aggregated"
    /\ UNCHANGED <<colormap, styles, csv>>
    /\ UNCHANGED cycleVars

NextAgg == Process
SpecAgg == InitAgg /\ [][NextAgg]_vars

\* Aggregated frames with an arbitrary count column
CountedFrames ==
    {[crs |-> EPSG4326,
      rows |-> [i \in DOMAIN cs |->
                  [NOME |-> NameOf[i],
                   geometry |-> [type |-> "Polygon", int |-> {"x1"}, bnd |-> {}],
                   sistemas_bancarios |-> cs[i]]]] :
        cs \in NonEmptySeqsUpTo(0..MaxCount, MaxRows)}

InitStyle ==
    /\ CycleIdle
    /\ stage = "aggregated"
    /\ gdf_bairros \in CountedFrames
    /\ gdf_sb = [crs |-> EPSG4326, rows |-> <<>>]
    /\ join = {} /\ colormap = <<>> /\ styles = <<>> /\ csv = <<>>

\* lines 74-113: build the colour scale and style every polygon
Choropleth ==
    /\ stage = "aggregated"
    /\ LET cmap == make_colormap(gdf_bairros)
       IN /\ colormap' = cmap
          /\ styles' = [i \in DOMAIN gdf_bairros.rows |-> style_function(cmap, gdf_bairros.rows[i])]
    /\ stage' = "styled"
    /\ UNCHANGED <<gdf_bairros, gdf_sb, join, csv>>
    /\ UNCHANGED cycleVars

NextStyle == Choropleth
SpecStyle == InitStyle /\ [][NextStyle]_vars

\* Names: the two of the documented example, one with a non-ASCII letter,
\* and every short string over the characters the CSV writer treats specially.
Alphabet == {",", "\""}
Centro == <<"C", "e", "n", "t", "r", "o">>
Batel == <<"B", "a", "t", "e", "l">>
Sao == <<"S", "a_tilde", "o">>
Names == SeqsUpTo(Alphabet, MaxNameLen) \cup {Centro, Batel, Sao}
CsvCounts == {0, 5, 12}

NamedFrames ==
    {[crs |-> EPSG4326,
      rows |-> [i \in DOMAIN rs |->
                  [NOME |-> rs[i][1],
                   geometry |-> [type |-> "Polygon", int |-> {"x1"}, bnd |-> {}],
                   sistemas_bancarios |-> rs[i][2]]]] :
        rs \in SeqsUpTo(Names \X CsvCounts, MaxCsvRows)}

InitCsv ==
    /\ CycleIdle
    /\ stage = "rendered"
    /\ gdf_bairros \in NamedFrames
    /\ gdf_sb = [crs |-> EPSG4326, rows |-> <<>>]
    /\ join = {} /\ colormap = <<>> /\ styles = <<>> /\ csv = <<>>

\* lines 148-153
Export ==
    /\ stage = "rendered"
    /\ csv' = convert_df(select_columns(gdf_bairros))
    /\ stage' = "exported"
    /\ UNCHANGED <<gdf_bairros, gdf_sb, join, colormap, styles>>
    /\ UNCHANGED cycleVars

NextCsv == Export
SpecCsv == InitCsv /\ [][NextCsv]_vars

----------------------------------------------------------------------------
(* Render cycles over the shared loader cache (Spec) *)

BAIRROS_URL == "dados/bairros.geojson"
SB_URL == "dados/dados_SB.geojson"
URLs == {BAIRROS_URL, SB_URL}
Sessions == {"s1", "s2"}

\* @st.cache_data(ttl=3600)
TTL == 3600
TickSteps == {1800}

\* What a URL may serve: a version of the file, or nothing usable.  A load
\* of an unusable file fails in one of three ways (requests.get raises,
\* raise_for_status raises, read_file raises).
Versions == {"v1", "v2"}
Down == "down"
Failures == {"ConnectionError", "HTTPError", "ParseError"}
\* The polygon file exists in two versions, the point file in one.
VersionsOf(u) == IF u = BAIRROS_URL THEN Versions ELSE {"v1"}
RemoteStates(u) == VersionsOf(u) \cup {Down}
Served(r) == IF r = Down THEN Failures ELSE {r}

Poly(I, B) == [type |-> "Polygon", int |-> I, bnd |-> B]
Pt(l) == [type |-> "Point", pts |-> {l}]

\* The file a URL serves in a given version
Payload(u, v) ==
    IF u = BAIRROS_URL
    THEN IF v = "v1"
         THEN [crs |-> EPSG31982,
               rows |-> <<[NOME |-> Centro, geometry |-> Poly({"x1"}, {"x2"})],
                          [NOME |-> Batel, geometry |-> Poly({"x3"}, {})]>>]
         ELSE [crs |-> EPSG4326,
               rows |-> <<[NOME |-> Centro, geometry |-> Poly({"x1", "x2"}, {})]>>]
    ELSE [crs |-> EPSG4326,
          rows |-> <<[geometry |-> Pt("x2")], [geometry |-> Pt("x2")],
                     [geometry |-> NoGeom]>>]

PyNone == [kind |-> "None"]
Unset == [kind |-> "unset"]
Frame(gdf) == [kind |-> "gdf", gdf |-> gdf]

\* lines 29-37 with the except clause left out: the exception escapes
load_body_uncaught(url, served) ==
    IF served \in Failures
    THEN [requests |-> 1, raised |-> TRUE, result |-> PyNone, errors |-> <<>>]
    ELSE [requests |-> 1, raised |-> FALSE, result |-> Frame(Payload(url, served)), errors |-> <<>>]

\* lines 29-37: the body of load_geojson_from_github
load_body(url, served) ==
    IF served \in Failures
    THEN [requests |-> 1, raised |-> FALSE, result |-> PyNone,
          errors |-> << <<"Erro ao carregar o arquivo: ", served>>,
                        <<"URL tentada: ", url>> >>]
    ELSE [requests |-> 1, raised |-> FALSE, result |-> Frame(Payload(url, served)), errors |-> <<>>]

\* a cache that keeps an entry alive for ttl after its latest use
fresh_sliding(entry, used, now) == now - used < TTL

\* an entry is served while it is younger than ttl, counted from its writing
fresh(entry, used, now) == now - entry.written < TTL

\* a cache that does not keep None results
cacheable_not_none(result) == result # PyNone

\* every returned value is stored, None included
cacheable(result) == TRUE

\* line 26-27: load_geojson_from_github(url) behind st.cache_data(ttl=3600).
\* store is the cache, used the time of the latest call per URL.
cached_load(url, store, used, served, now) ==
    IF store[url] # <<>> /\ fresh(store[url][1], used, now)
    THEN [requests |-> 0, raised |-> FALSE, result |-> store[url][1].value,
          errors |-> <<>>, hit |-> TRUE, store |-> store]
    ELSE LET b == load_body(url, served)
         IN [requests |-> b.requests, raised |-> b.raised, result |-> b.result,
             errors |-> b.errors, hit |-> FALSE,
             store |-> IF b.raised \/ ~cacheable(b.result)
                       THEN [store EXCEPT ![url] = <<>>]
                       ELSE [store EXCEPT ![url] = <<[value |-> b.result, written |-> now]>>]]

NoOutput == [steps |-> {}, map |-> <<>>, csv |-> <<>>]

Init ==
    /\ clock = 0
    /\ remote \in {f \in [URLs -> Versions \cup {Down}] : \A u \in URLs : f[u] \in RemoteStates(u)}
    /\ cache = [u \in URLs |-> <<>>]
    /\ lastLoad = [u \in URLs |-> [load |-> <<>>, fetch |-> <<>>]]
    /\ lastCall = <<>>
    /\ pc = [s \in Sessions |-> "start"]
    /\ bairros_data = [s \in Sessions |-> Unset]
    /\ df_sb = [s \in Sessions |-> Unset]
    /\ out = [s \in Sessions |-> NoOutput]
    /\ stage = "cycle"
    /\ gdf_bairros = [crs |-> EPSG4326, rows |-> <<>>]
    /\ gdf_sb = [crs |-> EPSG4326, rows |-> <<>>]
    /\ join = {} /\ colormap = <<>> /\ styles = <<>> /\ csv = <<>>

\* one call of the loader by session s, with its bookkeeping
Call(s, url, served) ==
    LET used == IF lastLoad[url].load = <<>> THEN 0 ELSE lastLoad[url].load[1].at
        r == cached_load(url, cache, used, served, clock)
        rec == [at |-> clock, result |-> r.result]
    IN [r |-> r,
        lastLoad |-> [lastLoad EXCEPT ![url] =
                        [load |-> <<rec>>,
                         fetch |-> IF r.requests > 0 THEN <<rec>> ELSE @.fetch]],
        lastCall |-> <<[session |-> s, url |-> url, at |-> clock,
                        served |-> served,
                        prevLoad |-> lastLoad[url].load,
                        prevFetch |-> lastLoad[url].fetch,
                        before |-> cache,
                        hit |-> r.hit,
                        requests |-> r.requests, raised |-> r.raised,
                        result |-> r.result, errors |-> r.errors]>>]

\* line 41
LoadBairros(s) ==
    /\ pc[s] = "start"
    /\ \E served \in Served(remote[BAIRROS_URL]) :
       LET c == Call(s, BAIRROS_URL, served)
       IN /\ cache' = c.r.store
          /\ lastLoad' = c.lastLoad
          /\ lastCall' = c.lastCall
          /\ IF c.r.raised
             THEN /\ pc' = [pc EXCEPT ![s] = "crashed"]
                  /\ UNCHANGED bairros_data
             ELSE /\ pc' = [pc EXCEPT ![s] = "load_sb"]
                  /\ bairros_data' = [bairros_data EXCEPT ![s] = c.r.result]
    /\ UNCHANGED <<clock, remote, df_sb, out>>
    /\ UNCHANGED pureVars

\* line 42
LoadSb(s) ==
    /\ pc[s] = "load_sb"
    /\ \E served \in Served(remote[SB_URL]) :
       LET c == Call(s, SB_URL, served)
       IN /\ cache' = c.r.store
          /\ lastLoad' = c.lastLoad
          /\ lastCall' = c.lastCall
          /\ IF c.r.raised
             THEN /\ pc' = [pc EXCEPT ![s] = "crashed"]
                  /\ UNCHANGED df_sb
             ELSE /\ pc' = [pc EXCEPT ![s] = "check"]
                  /\ df_sb' = [df_sb EXCEPT ![s] = c.r.result]
    /\ UNCHANGED <<clock, remote, bairros_data, out>>
    /\ UNCHANGED pureVars

\* lines 45-48 checking only the polygon layer
must_stop_bairros_only(b, p) == b = PyNone

\* lines 45-48: st.stop() when either load returned None
must_stop(b, p) == b = PyNone \/ p = PyNone

CheckLoaded(s) ==
    /\ pc[s] = "check"
    /\ pc' = [pc EXCEPT ![s] = IF must_stop(bairros_data[s], df_sb[s])
                                THEN "stopped" ELSE "process"]
    /\ lastCall' = <<>>
    /\ UNCHANGED <<clock, remote, cache, lastLoad, bairros_data, df_sb, out>>
    /\ UNCHANGED pureVars

\* lines 51-58; calling to_crs on None raises AttributeError
ProcessData(s) ==
    /\ pc[s] = "process"
    /\ IF bairros_data[s] = PyNone \/ df_sb[s] = PyNone
       THEN /\ pc' = [pc EXCEPT ![s] = "crashed"]
            /\ out' = [out EXCEPT ![s].steps = @ \cup {"to_crs"}]
            /\ UNCHANGED <<bairros_data, df_sb>>
       ELSE LET a == aggregate(bairros_data[s].gdf, df_sb[s].gdf)
            IN /\ bairros_data' = [bairros_data EXCEPT ![s] = Frame(a.bairros)]
               /\ df_sb' = [df_sb EXCEPT ![s] = Frame(a.sb)]
               /\ out' = [out EXCEPT ![s].steps = @ \cup {"to_crs", "sjoin"}]
               /\ pc' = [pc EXCEPT ![s] = "render"]
    /\ lastCall' = <<>>
    /\ UNCHANGED <<clock, remote, cache, lastLoad>>
    /\ UNCHANGED pureVars

\* lines 61-137: the map with the styled polygons
RenderMap(s) ==
    /\ pc[s] = "render"
    /\ LET g == bairros_data[s].gdf
           cmap == make_colormap(g)
       IN out' = [out EXCEPT ![s].steps = @ \cup {"map"},
                             ![s].map = [i \in DOMAIN g.rows |-> style_function(cmap, g.rows[i])]]
    /\ pc' = [pc EXCEPT ![s] = "export"]
    /\ lastCall' = <<>>
    /\ UNCHANGED <<clock, remote, cache, lastLoad, bairros_data, df_sb>>
    /\ UNCHANGED pureVars

\* lines 148-159
ExportCsv(s) ==
    /\ pc[s] = "export"
    /\ out' = [out EXCEPT ![s].steps = @ \cup {"csv"},
                          ![s].csv = convert_df(select_columns(bairros_data[s].gdf))]
    /\ pc' = [pc EXCEPT ![s] = "done"]
    /\ lastCall' = <<>>
    /\ UNCHANGED <<clock, remote, cache, lastLoad, bairros_data, df_sb>>
    /\ UNCHANGED pureVars

\* Streamlit runs the script again from the top (page load or widget change)
Rerun(s) ==
    /\ pc[s] \in {"stopped", "done", "crashed"}
    /\ pc' = [pc EXCEPT ![s] = "start"]
    /\ bairros_data' = [bairros_data EXCEPT ![s] = Unset]
    /\ df_sb' = [df_sb EXCEPT ![s] = Unset]
    /\ out' = [out EXCEPT ![s] = NoOutput]
    /\ lastCall' = <<>>
    /\ UNCHANGED <<clock, remote, cache, lastLoad>>
    /\ UNCHANGED pureVars

\* time passes
Tick ==
    /\ \E d \in TickSteps :
          /\ clock + d <= MaxClock
          /\ clock' = clock + d
    /\ lastCall' = <<>>
    /\ UNCHANGED <<remote, cache, lastLoad, pc, bairros_data, df_sb, out>>
    /\ UNCHANGED pureVars

\* the remote file changes, disappears or comes back
RemoteChange ==
    /\ \E u \in URLs :
        \E r \in RemoteStates(u) :
          /\ r # remote[u]
          /\ remote' = [remote EXCEPT ![u] = r]
    /\ lastCall' = <<>>
    /\ UNCHANGED <<clock, cache, lastLoad, pc, bairros_data, df_sb, out>>
    /\ UNCHANGED pureVars

Next ==
    \/ \E s \in Sessions : LoadBairros(s)
    \/ \E s \in Sessions : LoadSb(s)
    \/ \E s \in Sessions : CheckLoaded(s)
    \/ \E s \in Sessions : ProcessData(s)
    \/ \E s \in Sessions : RenderMap(s)
    \/ \E s \in Sessions : ExportCsv(s)
    \/ \E s \in Sessions : Rerun(s)
    \/ Tick
    \/ RemoteChange

Spec == Init /\ [][Next]_vars

----------------------------------------------------------------------------
(* Properties of the render cycles (Spec) *)

Called == lastCall # <<>>
TheCall == lastCall[1]
AfterCheck == {"process", "render", "export", "done"}

\* C4: in a cycle in which either load failed, nothing downstream happens:
\* no reprojection, no join, no map and no CSV; the run ends at the check.
C4_HaltOnFailedLoad ==
    \A s \in Sessions :
        (bairros_data[s] = PyNone \/ df_sb[s] = PyNone) =>
            /\ pc[s] \in {"load_sb", "check", "stopped"}
            /\ out[s] = NoOutput

C4_Witness ==
    \E s \in Sessions :
        /\ pc[s] = "stopped"
        /\ bairros_data[s].kind = "gdf"
        /\ df_sb[s] = PyNone
        /\ out[s] = NoOutput

\* C5: a load that fails raises nothing out of load_geojson_from_github: it
\* shows an error naming the URL, returns None and made exactly one request.
C5_FailureCaught ==
    (Called /\ ~TheCall.hit /\ TheCall.served \in Failures) =>
        /\ ~TheCall.raised
        /\ pc[TheCall.session] # "crashed"
        /\ TheCall.result = PyNone
        /\ TheCall.requests = 1
        /\ \E i \in DOMAIN TheCall.errors : TheCall.errors[i] = <<"URL tentada: ", TheCall.url>>

C5_Witness ==
    /\ Called
    /\ ~TheCall.hit
    /\ TheCall.served = "HTTPError"
    /\ TheCall.result = PyNone
    /\ TheCall.requests = 1

\* C6 as stated: a load of a URL that was loaded less than one hour earlier
\* makes no request and returns what the earlier load returned.
C6_RecentLoadIsHit ==
    (Called /\ TheCall.prevLoad # <<>> /\ TheCall.at - TheCall.prevLoad[1].at < TTL) =>
        /\ TheCall.requests = 0
        /\ TheCall.result = TheCall.prevLoad[1].result

FetchedRecently(c) == c.prevFetch # <<>> /\ c.at - c.prevFetch[1].at < TTL

C6_CallOutcome ==
    Called =>
        /\ FetchedRecently(TheCall) =>
              /\ TheCall.requests = 0
              /\ TheCall.result = TheCall.prevFetch[1].result
              /\ cache = TheCall.before
        /\ ~FetchedRecently(TheCall) =>
              /\ TheCall.requests = 1
              /\ cache[TheCall.url] = <<[value |-> TheCall.result, written |-> TheCall.at]>>
        /\ \A u \in URLs : u # TheCall.url => cache[u] = TheCall.before[u]

\* C6 amended: the time-to-live runs from the load that went to the network.
\* A load of a URL fetched less than one hour earlier makes no request and
\* returns that fetch's result; any other load makes exactly one request and
\* replaces the URL's entry; no entry changes except by a load of its URL.
C6_TtlFromFetch ==
    /\ []C6_CallOutcome
    /\ [][lastCall' = <<>> => cache' = cache]_vars

C6_Witness ==
    /\ Called
    /\ TheCall.prevLoad # <<>>
    /\ TheCall.at - TheCall.prevLoad[1].at < TTL
    /\ ~FetchedRecently(TheCall)
    /\ TheCall.prevFetch # <<>>
    /\ TheCall.requests = 1
    /\ TheCall.session = "s2"

FailedRecently(c) == FetchedRecently(c) /\ c.prevFetch[1].result = PyNone

\* C10: a failed load is cached: within one hour of it a load of the URL
\* makes no request and returns None even if the file is reachable again,
\* the run halts at the check, and once the hour is over the URL is fetched.
C10_FailureIsCached ==
    /\ (Called /\ FailedRecently(TheCall)) =>
          /\ TheCall.requests = 0
          /\ TheCall.result = PyNone
    /\ (Called /\ TheCall.prevFetch # <<>> /\ TheCall.prevFetch[1].result = PyNone
                /\ ~FetchedRecently(TheCall)) =>
          TheCall.requests = 1
    /\ \A s \in Sessions :
          pc[s] \in AfterCheck => (bairros_data[s] # PyNone /\ df_sb[s] # PyNone)

C10_Witness ==
    /\ Called
    /\ FailedRecently(TheCall)
    /\ TheCall.served \in Versions
    /\ TheCall.requests = 0
    /\ TheCall.result = PyNone

----------------------------------------------------------------------------
(* Properties of the aggregation (SpecAgg) *)

Polys == DOMAIN gdf_bairros.rows
Feats == DOMAIN gdf_sb.rows
CountOf(i) == gdf_bairros.rows[i].sistemas_bancarios

\* the features of the point collection that polygon i contains
ContainedIn(i) ==
    {j \in Feats : Contains(gdf_bairros.rows[i].geometry, gdf_sb.rows[j].geometry)}

Cells(g) == g.int \cup g.bnd
PairwiseDisjoint ==
    \A i, k \in Polys :
        i # k => Cells(gdf_bairros.rows[i].geometry) \cap Cells(gdf_bairros.rows[k].geometry) = {}

\* C1: after the join and the group-by-count, every polygon's
\* 'sistemas_bancarios' equals the number of features of the point
\* collection that the polygon contains, each polygon on its own.
C1_CountEqualsContained ==
    stage = "aggregated" => \A i \in Polys : CountOf(i) = Cardinality(ContainedIn(i))

\* C2: the result has one entry per polygon, and a polygon that contains no
\* point has the count 0.
C2_OneEntryPerPolygonZeroFill ==
    stage = "aggregated" =>
        /\ \A i \in Polys : "sistemas_bancarios" \in DOMAIN gdf_bairros.rows[i]
        /\ \A i \in Polys : ContainedIn(i) = {} => CountOf(i) = 0

\* C3: every count is >= 0, and over pairwise disjoint polygons the counts
\* add up to the number of points inside at least one polygon.
C3_NonNegativeAndDisjointSum ==
    stage = "aggregated" =>
        /\ \A i \in Polys : CountOf(i) >= 0
        /\ PairwiseDisjoint =>
              SumSeq([i \in Polys |-> CountOf(i)])
                = Cardinality({j \in Feats : \E i \in Polys : j \in ContainedIn(i)})

\* C9: a feature that is missing, empty or not a simple Point is counted for
\* no polygon: every feature the join matched passes the location filter.
C9_OnlySimplePointsCounted ==
    stage = "aggregated" =>
        \A r \in join : r.index_right # NaN =>
            is_location(gdf_sb.rows[r.index_right[1]].geometry)

----------------------------------------------------------------------------
(* Properties of the colour scale (SpecStyle) *)

\* C8: the scale's domain is [min(count), max(count)], every count lies in
\* it, no call of the style function fails, the stroke is black / 1.5 / 0.7,
\* and when all counts are equal all polygons get one and the same fill.
C8_ColorScale ==
    stage = "styled" =>
        /\ \A i \in Polys : colormap.vmin <= CountOf(i) /\ CountOf(i) <= colormap.vmax
        /\ \E i \in Polys : CountOf(i) = colormap.vmin
        /\ \E i \in Polys : CountOf(i) = colormap.vmax
        /\ \A i \in Polys :
              /\ styles[i].fillColor \notin {ZeroDivisionError, IndexError}
              /\ styles[i].color = "black"
              /\ styles[i].weight = "1.5"
              /\ styles[i].fillOpacity = "0.7"
        /\ colormap.vmin = colormap.vmax =>
              \A i, k \in Polys : styles[i].fillColor = styles[k].fillColor

C8_Witness ==
    /\ stage = "styled"
    /\ Cardinality(Polys) >= 2
    /\ colormap.vmin = colormap.vmax
    /\ styles[1].fillColor = <<254, 249, 239, 255>>

----------------------------------------------------------------------------
(* Properties of the CSV export (SpecCsv) *)

NameAt(i) == gdf_bairros.rows[i].NOME

\* The export as the claim words it: header, then 'name,count' per polygon
\* with the name written as it is.
PlainCsv ==
    NOME_label \o <<",">> \o SB_label \o <<"\n">>
        \o Flatten([i \in Polys |-> NameAt(i) \o <<",">> \o Decimal(CountOf(i)) \o <<"\n">>])

\* A reader of the produced bytes: UTF-8 decoding ...
RECURSIVE Decode(_)
Decode(bs) ==
    IF bs = <<>> THEN <<>>
    ELSE IF Head(bs) = "0xC3" /\ Len(bs) >= 2 /\ bs[2] = "0xA3"
         THEN <<"a_tilde">> \o Decode(Tail(Tail(bs)))
         ELSE <<Head(bs)>> \o Decode(Tail(bs))

\* ... and CSV parsing into records of fields (quoted fields, doubled quotes)
RECURSIVE Parse(_, _, _, _, _)
Parse(text, quoted, field, record, records) ==
    IF text = <<>> THEN records
    ELSE LET c == Head(text)
             rest == Tail(text)
         IN IF quoted
            THEN IF c = "\"" /\ rest # <<>> /\ Head(rest) = "\""
                 THEN Parse(Tail(rest), TRUE, Append(field, "\""), record, records)
                 ELSE IF c = "\""
                      THEN Parse(rest, FALSE, field, record, records)
                      ELSE Parse(rest, TRUE, Append(field, c), record, records)
            ELSE IF c = "\"" /\ field = <<>>
                 THEN Parse(rest, TRUE, field, record, records)
                 ELSE IF c = ","
                      THEN Parse(rest, FALSE, <<>>, Append(record, field), records)
                      ELSE IF c = "\n"
                           THEN Parse(rest, FALSE, <<>>, <<>>, Append(records, Append(record, field)))
                           ELSE Parse(rest, FALSE, Append(field, c), record, records)

ReadCsv(bytes) == Parse(Decode(bytes), FALSE, <<>>, <<>>, <<>>)

PlainNames == \A i \in Polys : ~NeedsQuoting(NameAt(i))

\* C7 as stated: the export is exactly the header and one 'name,count' line
\* per polygon, in order, names and counts untransformed.
C7_ExactRows ==
    stage = "exported" => csv = encode(PlainCsv)

\* C7 amended: the export reads back as the header record followed by one
\* (name, count) record per polygon in frame order; it is literally the
\* 'name,count' lines whenever no name holds a comma, a quote or a line break.
C7_RowsReadBack ==
    stage = "exported" =>
        /\ ReadCsv(csv) =
              <<<<NOME_label, SB_label>>>>
                \o [i \in Polys |-> <<NameAt(i), Decimal(CountOf(i))>>]
        /\ PlainNames => csv = encode(PlainCsv)

C7_Witness ==
    /\ stage = "exported"
    /\ Len(gdf_bairros.rows) = 2
    /\ NameAt(1) = Centro /\ CountOf(1) = 5
    /\ NameAt(2) = Batel /\ CountOf(2) = 0
    /\ csv = NOME_label \o <<",">> \o SB_label
              \o <<"\n", "C", "e", "n", "t", "r", "o", ",", "5",
                    "\n", "B", "a", "t", "e", "l", ",", "0", "\n">>

====
